---- MODULE Spec2Model ----
(***************************************************************************)
(* A model of app.py, the adverse event checker: one run of the script     *)
(* from the loading of the speech model to the end of the analysis         *)
(* section.  Strings are sequences of one-character strings, so that        *)
(* lowercasing, capitalising and word-boundary matching are computed.       *)
(***************************************************************************)
EXTENDS Integers, Sequences, FiniteSets, TLC

\* ------------------------------------------------------------------ bounds
\* a typed text is made of at most MaxWords words
MaxWords == 3
\* the remote service answers with at most MaxResults result items
MaxResults == 6
\* the recogniser accepts at most MaxFrames partial results before the final one
MaxFrames == 1

\* --------------------------------------------------------------- constants
\* "limit": 5 in the query parameters
limit == 5

\* ----------------------------------------------------------------- strings
UpperCase == <<"A","B","C","D","E","F","G","H","I","J","K","L","M",
               "N","O","P","Q","R","S","T","U","V","W","X","Y","Z">>
LowerCase == <<"a","b","c","d","e","f","g","h","i","j","k","l","m",
               "n","o","p","q","r","s","t","u","v","w","x","y","z">>
Digits == {"0","1","2","3","4","5","6","7","8","9"}

Range(s) == {s[i] : i \in 1..Len(s)}

\* str.lower() and str.upper() of one character, as tables
LowerTable == [c \in Range(UpperCase) |-> LowerCase[CHOOSE i \in 1..26 : UpperCase[i] = c]]
UpperTable == [c \in Range(LowerCase) |-> UpperCase[CHOOSE i \in 1..26 : LowerCase[i] = c]]

lowerChar(c) == IF c \in DOMAIN LowerTable THEN LowerTable[c] ELSE c

upperChar(c) == IF c \in DOMAIN UpperTable THEN UpperTable[c] ELSE c

\* str.lower()
lower(s) == [i \in 1..Len(s) |-> lowerChar(s[i])]

\* str.capitalize(): first character upper case, the rest lower case
capitalize(s) == [i \in 1..Len(s) |-> IF i = 1 THEN upperChar(s[i]) ELSE lowerChar(s[i])]

\* the regular expression class \w
WordChars == Range(UpperCase) \cup Range(LowerCase) \cup Digits \cup {"_"}
IsWordChar(c) == c \in WordChars

\* the regular expression assertion \b at position i of t (before t[i])
WordBoundary(t, i) ==
    LET before == i - 1 >= 1 /\ i - 1 <= Len(t) /\ IsWordChar(t[i - 1])
        after  == i >= 1 /\ i <= Len(t) /\ IsWordChar(t[i])
    IN  before # after

\* the literal w matches t at position i
LiteralAt(w, t, i) ==
    /\ i + Len(w) - 1 <= Len(t)
    /\ \A k \in 1..Len(w) : t[i + k - 1] = w[k]

\* ---------------------------------------------------------------- patterns
aspirin      == <<"a","s","p","i","r","i","n">>
lisinopril   == <<"l","i","s","i","n","o","p","r","i","l">>
metformin    == <<"m","e","t","f","o","r","m","i","n">>
warfarin     == <<"w","a","r","f","a","r","i","n">>
atorvastatin == <<"a","t","o","r","v","a","s","t","a","t","i","n">>
ibuprofen    == <<"i","b","u","p","r","o","f","e","n">>
paracetamol  == <<"p","a","r","a","c","e","t","a","m","o","l">>

cough     == <<"c","o","u","g","h">>
nausea    == <<"n","a","u","s","e","a">>
dizziness == <<"d","i","z","z","i","n","e","s","s">>
rash      == <<"r","a","s","h">>
headache  == <<"h","e","a","d","a","c","h","e">>
vomiting  == <<"v","o","m","i","t","i","n","g">>
fatigue   == <<"f","a","t","i","g","u","e">>
swelling  == <<"s","w","e","l","l","i","n","g">>

\* the alternatives of the group, in the order of the pattern
MEDICATION_PATTERN ==
    <<aspirin, lisinopril, metformin, warfarin, atorvastatin, ibuprofen, paracetamol>>
SYMPTOM_PATTERN ==
    <<cough, nausea, dizziness, rash, headache, vomiting, fatigue, swelling>>

\* \b(w1|w2|...)\b tried at position i: the index of the first alternative
\* that matches with a boundary on both sides, 0 when none does
MatchAt_NoTrailingBoundary(pattern, t, i) ==
    LET ok == {k \in 1..Len(pattern) : WordBoundary(t, i) /\ LiteralAt(pattern[k], t, i)}
    IN  IF ok = {} THEN 0 ELSE CHOOSE k \in ok : \A j \in ok : k <= j

MatchAt(pattern, t, i) ==
    LET ok == {k \in 1..Len(pattern) :
                  /\ WordBoundary(t, i)
                  /\ LiteralAt(pattern[k], t, i)
                  /\ WordBoundary(t, i + Len(pattern[k]))}
    IN  IF ok = {} THEN 0 ELSE CHOOSE k \in ok : \A j \in ok : k <= j

\* re.findall(pattern, t) from position i on: the non-overlapping matches,
\* left to right
RECURSIVE findallFrom(_, _, _)
findallFrom(pattern, t, i) ==
    IF i > Len(t) THEN <<>>
    ELSE LET k == MatchAt(pattern, t, i)
         IN  IF k = 0 THEN findallFrom(pattern, t, i + 1)
             ELSE <<pattern[k]>> \o findallFrom(pattern, t, i + Len(pattern[k]))

findall(pattern, t) == findallFrom(pattern, t, 1)

\* list(set(xs)): the elements of xs once each, in an order the hash seed decides
ListOfSet(xs) ==
    LET S == Range(xs)
    IN  {l \in [1..Cardinality(S) -> S] : Range(l) = S}

\* the values extract_entities(text) can return
extract_entities_NoSet(t) ==
    {[meds |-> findall(MEDICATION_PATTERN, lower(t)), symptoms |-> s] :
        s \in ListOfSet(findall(SYMPTOM_PATTERN, lower(t)))}

extract_entities(t) ==
    {[meds |-> m, symptoms |-> s] :
        m \in ListOfSet(findall(MEDICATION_PATTERN, lower(t))),
        s \in ListOfSet(findall(SYMPTOM_PATTERN, lower(t)))}

\* ------------------------------------------------------------ transcription
\* what the recogniser may put in the "text" of one result ("" when it heard nothing)
RecognizedTexts == {<<>>, aspirin, warfarin, nausea}

RECURSIVE SeqsUpTo(_, _)
SeqsUpTo(S, n) ==
    IF n = 0 THEN {<<>>}
    ELSE LET shorter == SeqsUpTo(S, n - 1)
         IN  shorter \cup {Append(q, x) : q \in {r \in shorter : Len(r) = n - 1}, x \in S}

\* what reading and recognising an uploaded file can do: sf.read raises, the
\* recogniser raises, or the partial results and the final result come back
AudioOutcomes ==
    {[kind |-> "decode_error", results |-> <<>>],
     [kind |-> "recognition_error", results |-> <<>>]}
    \cup {[kind |-> "ok", results |-> r] :
             r \in {q \in SeqsUpTo(RecognizedTexts, MaxFrames + 1) : Len(q) >= 1}}

\* " ".join(xs)
RECURSIVE join(_)
join(xs) ==
    IF xs = <<>> THEN <<>>
    ELSE IF Len(xs) = 1 THEN xs[1]
    ELSE xs[1] \o <<" ">> \o join(Tail(xs))

\* transcribe_audio(audio_file): the text returned and whether st.error was called
transcribe_audio_ErrorText(outcome) ==
    IF outcome.kind = "ok"
    THEN [text |-> join(SelectSeq(outcome.results, LAMBDA x : x # <<>>)), error |-> FALSE]
    ELSE [text |-> <<" ">>, error |-> TRUE]

transcribe_audio(outcome) ==
    IF outcome.kind = "ok"
    THEN [text |-> join(SelectSeq(outcome.results, LAMBDA x : x # <<>>)), error |-> FALSE]
    ELSE [text |-> <<>>, error |-> TRUE]

\* ------------------------------------------------------------ remote service
\* reaction terms as the remote service spells them
RemoteTerms == {<<"N","A","U","S","E","A">>, <<"R","a","s","h">>,
                <<"B","l","e","e","d","i","n","g">>}

\* n copies of x
Repeat(x, n) == [i \in 1..n |-> x]

\* the result lists of a well-formed body: up to two different terms in any
\* order, and one list filled up, with the term that is no symptom, to the
\* limit and to every length beyond it up to MaxResults
ResultLists ==
    {h \in SeqsUpTo(RemoteTerms, 2) : Len(h) = 2 => h[1] # h[2]}
    \cup {<<<<"N","A","U","S","E","A">>>> \o Repeat(<<"B","l","e","e","d","i","n","g">>, n - 1) :
             n \in limit..MaxResults}

\* bodies of a 200 response: the shapes response.json() and the comprehension
\* tell apart
BodyShapes ==
    {"not_json", "not_object", "no_results", "results_not_list",
     "item_no_term", "term_not_string"}

\* what requests.get can do
Responses ==
    {[kind |-> k, status |-> 0, body |-> "none", results |-> <<>>] :
        k \in {"network_error", "timeout"}}
    \cup {[kind |-> "http", status |-> s, body |-> "not_json", results |-> <<>>] :
             s \in {404, 500}}
    \cup {[kind |-> "http", status |-> 200, body |-> b, results |-> <<>>] :
             b \in BodyShapes}
    \cup {[kind |-> "http", status |-> 200, body |-> "ok", results |-> r] :
             r \in ResultLists}

\* the shapes on which line 57 raises
RaisesAtLine57(resp) ==
    resp.body \in {"not_json", "not_object", "results_not_list",
                   "item_no_term", "term_not_string"}

\* a short name of what the remote service did
OutcomeOf(resp) ==
    IF resp.kind # "http" THEN resp.kind
    ELSE IF resp.status # 200 THEN "bad_status"
    ELSE resp.body

\* get_fda_events(medication) when requests.get does resp: the list returned,
\* whether st.error was called, and whether an exception leaves the function
get_fda_events_NoHandler(medication, resp) ==
    IF resp.kind # "http"
    THEN [events |-> <<>>, error |-> FALSE, raised |-> TRUE]
    ELSE IF resp.status = 200
         THEN IF RaisesAtLine57(resp)
              THEN [events |-> <<>>, error |-> TRUE, raised |-> FALSE]
              ELSE [events |-> [i \in 1..Len(resp.results) |-> lower(resp.results[i])],
                    error |-> FALSE, raised |-> FALSE]
         ELSE [events |-> <<>>, error |-> FALSE, raised |-> FALSE]

get_fda_events_SilentExcept(medication, resp) ==
    IF resp.kind # "http"
    THEN [events |-> <<>>, error |-> FALSE, raised |-> FALSE]
    ELSE IF resp.status = 200
         THEN IF RaisesAtLine57(resp)
              THEN [events |-> <<>>, error |-> FALSE, raised |-> FALSE]
              ELSE [events |-> [i \in 1..Len(resp.results) |-> lower(resp.results[i])],
                    error |-> FALSE, raised |-> FALSE]
         ELSE [events |-> <<>>, error |-> FALSE, raised |-> FALSE]

get_fda_events(medication, resp) ==
    IF resp.kind # "http"
    THEN [events |-> <<>>, error |-> TRUE, raised |-> FALSE]
    ELSE IF resp.status = 200
         THEN IF RaisesAtLine57(resp)
              THEN [events |-> <<>>, error |-> TRUE, raised |-> FALSE]
              ELSE [events |-> [i \in 1..Len(resp.results) |-> lower(resp.results[i])],
                    error |-> FALSE, raised |-> FALSE]
         ELSE [events |-> <<>>, error |-> FALSE, raised |-> FALSE]

\* ----------------------------------------------------------------- presenter
Entry(k, m) == [kind |-> k, med |-> m]

\* [s for s in symptoms if s in adverse_events]
Matches_All(syms, events) == syms

Matches(syms, events) == SelectSeq(syms, LAMBDA s : s \in Range(events))

\* the body of the expander after the lookup: what is written, the value of
\* matches afterwards, and the two lists on the screen
Present_NoContinue(m, events, syms, oldMatches) ==
    LET ms == Matches(syms, events)
        known == [i \in 1..Len(events) |-> capitalize(events[i])]
    IN  IF ms # <<>>
        THEN [out |-> <<Entry("potential", m)>>, matches |-> ms,
              shown |-> [matches |-> [i \in 1..Len(ms) |-> capitalize(ms[i])],
                         effects |-> known]]
        ELSE [out |-> <<Entry("no_match", m)>>, matches |-> ms,
              shown |-> [matches |-> <<>>, effects |-> known]]

Present(m, events, syms, oldMatches) ==
    IF events = <<>>
    THEN [out |-> <<Entry("no_data", m)>>, matches |-> oldMatches,
          shown |-> [matches |-> <<>>, effects |-> <<>>]]
    ELSE LET ms == Matches(syms, events)
             known == [i \in 1..Len(events) |-> capitalize(events[i])]
         IN  IF ms # <<>>
             THEN [out |-> <<Entry("potential", m)>>, matches |-> ms,
                   shown |-> [matches |-> [i \in 1..Len(ms) |-> capitalize(ms[i])],
                              effects |-> known]]
             ELSE [out |-> <<Entry("no_match", m)>>, matches |-> ms,
                   shown |-> [matches |-> <<>>, effects |-> known]]

\* -------------------------------------------------------------------- inputs
\* the words a typed text is made of: vocabulary words in either case, and a
\* vocabulary word inside a longer word
TextWords ==
    {aspirin, <<"W","a","r","f","a","r","i","n">>, nausea, <<"R","A","S","H">>,
     aspirin \o <<"o">>}

\* the texts of at most MaxWords words, a space between two words
Texts == {join(ws) : ws \in SeqsUpTo(TextWords, MaxWords)}

\* for extract_entities on its own, also a vocabulary word after an underscore,
\* before a hyphen, before a digit, and no word at all
ExtractWords ==
    TextWords \cup {<<"_">> \o rash, nausea \o <<"-">>, aspirin \o <<"2">>, <<>>}

ExtractTexts == {join(ws) : ws \in SeqsUpTo(ExtractWords, MaxWords)}

\* --------------------------------------------------------------------- state
VARIABLES
    pc,              \* where the script is
    model,           \* the module-level Vosk model handle
    input_type,      \* the radio button
    audio,           \* what happened to the uploaded file, "none" without one
    text,            \* the text to analyse
    meds,            \* extract_entities(text)[0]
    symptoms,        \* extract_entities(text)[1]
    idx,             \* position of the for loop in meds
    adverse_events,  \* the local of the loop body
    matches,         \* the local of the loop body
    ui,              \* what st.error/warning/subheader/expander/write rendered
    shown,           \* the lists written in the expander rendered last
    calls,           \* the medications of the outbound requests, in order
    response,        \* what the service did with the latest request
    transcriptions,  \* calls of transcribe_audio
    extractions      \* calls of extract_entities

vars == <<pc, model, input_type, audio, text, meds, symptoms, idx,
          adverse_events, matches, ui, shown, calls, response, transcriptions,
          extractions>>

NoLists == [matches |-> <<>>, effects |-> <<>>]

Init ==
    /\ pc = "load"
    /\ model = "unset"
    /\ input_type = "unset"
    /\ audio = "none"
    /\ text = <<>>
    /\ meds = <<>>
    /\ symptoms = <<>>
    /\ idx = 0
    /\ adverse_events = <<>>
    /\ matches = <<>>
    /\ ui = <<>>
    /\ shown = NoLists
    /\ calls = <<>>
    /\ response = "none"
    /\ transcriptions = 0
    /\ extractions = 0

\* lines 10-14: Model(lang="en-us"), and st.error and st.stop() when it raises
LoadModel_NoStop ==
    /\ pc = "load"
    /\ \E ok \in BOOLEAN :
          IF ok
          THEN /\ model' = "loaded"
               /\ ui' = ui
          ELSE /\ model' = model
               /\ ui' = Append(ui, Entry("error_model", <<>>))
    /\ pc' = "input"
    /\ UNCHANGED <<input_type, audio, text, meds, symptoms, idx, adverse_events,
                   matches, shown, calls, response, transcriptions, extractions>>

LoadModel ==
    /\ pc = "load"
    /\ \E ok \in BOOLEAN :
          IF ok
          THEN /\ model' = "loaded"
               /\ ui' = ui
               /\ pc' = "input"
          ELSE /\ model' = model
               /\ ui' = Append(ui, Entry("error_model", <<>>))
               /\ pc' = "stopped"
    /\ UNCHANGED <<input_type, audio, text, meds, symptoms, idx, adverse_events,
                   matches, shown, calls, response, transcriptions, extractions>>

\* lines 68, 79-80: the Text mode, with whatever the text area holds
InputText ==
    /\ pc = "input"
    /\ input_type' = "Text"
    /\ \E t \in Texts : text' = t
    /\ pc' = "analysis"
    /\ UNCHANGED <<model, audio, meds, symptoms, idx, adverse_events, matches,
                   ui, shown, calls, response, transcriptions, extractions>>

\* lines 68, 70-73: the Audio mode with no file uploaded
InputAudioNoFile ==
    /\ pc = "input"
    /\ input_type' = "Audio"
    /\ text' = <<>>
    /\ pc' = "analysis"
    /\ UNCHANGED <<model, audio, meds, symptoms, idx, adverse_events, matches,
                   ui, shown, calls, response, transcriptions, extractions>>

\* lines 68, 70-78: the Audio mode with a file, transcribed
InputAudioFile ==
    /\ pc = "input"
    /\ input_type' = "Audio"
    /\ \E outcome \in AudioOutcomes :
          LET r == transcribe_audio(outcome)
              failed == IF r.error THEN <<Entry("error_transcription", <<>>)>> ELSE <<>>
              transcript == IF r.text # <<>> THEN <<Entry("transcript", <<>>)>> ELSE <<>>
          IN  /\ audio' = outcome.kind
              /\ text' = r.text
              /\ ui' = ui \o failed \o transcript
    /\ transcriptions' = transcriptions + 1
    /\ pc' = "analysis"
    /\ UNCHANGED <<model, meds, symptoms, idx, adverse_events, matches, shown,
                   calls, response, extractions>>

\* lines 83-90: the analysis section up to the loop
Analysis_NoWarning ==
    /\ pc = "analysis"
    /\ IF text = <<>>
       THEN /\ pc' = "done"
            /\ UNCHANGED <<meds, symptoms, idx, ui, extractions>>
       ELSE /\ \E e \in extract_entities(text) :
                  /\ meds' = e.meds
                  /\ symptoms' = e.symptoms
                  /\ ui' = Append(ui, Entry("subheader_results", <<>>))
                  /\ idx' = 1
                  /\ pc' = IF e.meds = <<>> THEN "done" ELSE "loop"
            /\ extractions' = extractions + 1
    /\ UNCHANGED <<model, input_type, audio, text, adverse_events, matches, shown,
                   calls, response, transcriptions>>

Analysis ==
    /\ pc = "analysis"
    /\ IF text = <<>>
       THEN /\ pc' = "done"
            /\ UNCHANGED <<meds, symptoms, idx, ui, extractions>>
       ELSE /\ \E e \in extract_entities(text) :
                  /\ meds' = e.meds
                  /\ symptoms' = e.symptoms
                  /\ IF e.meds = <<>>
                     THEN /\ ui' = Append(ui, Entry("warning_no_medications", <<>>))
                          /\ idx' = idx
                          /\ pc' = "done"
                     ELSE /\ ui' = Append(ui, Entry("subheader_results", <<>>))
                          /\ idx' = 1
                          /\ pc' = "loop"
            /\ extractions' = extractions + 1
    /\ UNCHANGED <<model, input_type, audio, text, adverse_events, matches, shown,
                   calls, response, transcriptions>>

\* lines 92-95, 47-55: the next medication, its expander, and the request sent
RequestFDA ==
    /\ pc = "loop"
    /\ idx <= Len(meds)
    /\ LET med == capitalize(meds[idx])
       IN  /\ ui' = Append(ui, Entry("expander", med))
           /\ calls' = Append(calls, med)
           /\ response' = "pending"
    /\ pc' = "awaiting"
    /\ UNCHANGED <<model, input_type, audio, text, meds, symptoms, idx,
                   adverse_events, matches, shown, transcriptions, extractions>>

\* lines 56-61, 95-110: requests.get returns or raises, get_fda_events returns,
\* and the rest of the loop body runs
FDAReturn ==
    /\ pc = "awaiting"
    /\ \E resp \in Responses :
          LET med == capitalize(meds[idx])
              r == get_fda_events(med, resp)
              failed == IF r.error THEN <<Entry("error_fda", med)>> ELSE <<>>
              p == Present(med, r.events, symptoms, matches)
          IN  /\ response' = OutcomeOf(resp)
              /\ IF r.raised
                 THEN /\ pc' = "crashed"
                      /\ UNCHANGED <<adverse_events, matches, ui, shown, idx>>
                 ELSE /\ adverse_events' = r.events
                      /\ matches' = p.matches
                      /\ shown' = p.shown
                      /\ ui' = ui \o failed \o p.out
                      /\ idx' = idx + 1
                      /\ pc' = IF idx + 1 <= Len(meds) THEN "loop" ELSE "done"
    /\ UNCHANGED <<model, input_type, audio, text, meds, symptoms, calls,
                   transcriptions, extractions>>

Next ==
    \/ LoadModel
    \/ InputText
    \/ InputAudioNoFile
    \/ InputAudioFile
    \/ Analysis
    \/ RequestFDA
    \/ FDAReturn

Spec == Init /\ [][Next]_vars

\* extract_entities called on its own, on any text, the empty one included
InitExtract ==
    /\ pc = "extract_call"
    /\ model = "loaded"
    /\ input_type = "unset"
    /\ audio = "none"
    /\ text \in ExtractTexts
    /\ meds = <<>>
    /\ symptoms = <<>>
    /\ idx = 0
    /\ adverse_events = <<>>
    /\ matches = <<>>
    /\ ui = <<>>
    /\ shown = NoLists
    /\ calls = <<>>
    /\ response = "none"
    /\ transcriptions = 0
    /\ extractions = 0

\* lines 37-42
ExtractCall ==
    /\ pc = "extract_call"
    /\ \E e \in extract_entities(text) :
          /\ meds' = e.meds
          /\ symptoms' = e.symptoms
    /\ extractions' = extractions + 1
    /\ pc' = "extract_return"
    /\ UNCHANGED <<model, input_type, audio, text, idx, adverse_events, matches,
                   ui, shown, calls, response, transcriptions>>

SpecExtract == InitExtract /\ [][ExtractCall]_vars

\* ==================================================================== claims
MedicationVocabulary == Range(MEDICATION_PATTERN)
SymptomVocabulary == Range(SYMPTOM_PATTERN)

\* w stands in t as a whole word
WholeWordIn(w, t) ==
    \E i \in 1..Len(t) :
        /\ LiteralAt(w, t, i)
        /\ WordBoundary(t, i)
        /\ WordBoundary(t, i + Len(w))

\* w stands in t, as a word or inside one
OccursIn(w, t) == \E i \in 1..Len(t) : LiteralAt(w, t, i)

NoDuplicates(l) == \A i, j \in 1..Len(l) : l[i] = l[j] => i = j

HasEntry(e) == \E j \in 1..Len(ui) : ui[j] = e
HasKind(k) == \E j \in 1..Len(ui) : ui[j].kind = k

\* the medications that stand in the analysed text as whole words
DetectedMedications == {w \in MedicationVocabulary : WholeWordIn(w, lower(text))}

\* a lookup has returned and the loop body has run for meds[idx - 1]
Reported == pc \in {"loop", "done"} /\ idx > 1

\* the medication of that lookup, as it was passed to get_fda_events
LastMed == capitalize(meds[idx - 1])

\* C1: extract_entities returns only members of the two vocabularies, each at
\* most once, each standing as a whole word in the lowercased text; the empty
\* text gives two empty lists.
C1_ExtractOnlyWholeWords ==
    pc = "extract_return" =>
        /\ \A i \in 1..Len(meds) :
              meds[i] \in MedicationVocabulary /\ WholeWordIn(meds[i], lower(text))
        /\ \A i \in 1..Len(symptoms) :
              symptoms[i] \in SymptomVocabulary /\ WholeWordIn(symptoms[i], lower(text))
        /\ NoDuplicates(meds)
        /\ NoDuplicates(symptoms)
        /\ (text = <<>> => meds = <<>> /\ symptoms = <<>>)

\* a medication is returned while another one, embedded in a longer word, is not
C1_Witness ==
    /\ pc = "extract_return"
    /\ Len(meds) = 1
    /\ \E w \in MedicationVocabulary : OccursIn(w, lower(text)) /\ w \notin Range(meds)

\* C2: for a medication with a non-empty adverse-event list, matches is the set
\* of detected symptoms that are in the list; the medication is flagged exactly
\* when that set is non-empty and the matching terms are listed, and otherwise
\* "no match" is reported with the whole list.
C2_MatchesAreIntersection ==
    (Reported /\ adverse_events # <<>>) =>
        LET med == capitalize(meds[idx - 1])
            inter == Range(symptoms) \cap Range(adverse_events)
            last == ui[Len(ui)]
            known == [i \in 1..Len(adverse_events) |-> capitalize(adverse_events[i])]
        IN  /\ Range(matches) = inter
            /\ NoDuplicates(matches)
            /\ last.med = med
            /\ last.kind = "potential" <=> inter # {}
            /\ last.kind = "no_match" <=> inter = {}
            /\ Range(shown.matches) = {capitalize(x) : x \in inter}
            /\ shown.effects = known

\* some detected symptom is flagged and another one is not
C2_Witness ==
    /\ Reported
    /\ adverse_events # <<>>
    /\ Range(matches) # {}
    /\ Range(matches) # Range(symptoms)
    /\ ui[Len(ui)].kind = "potential"

\* C3: a network error in one lookup gives that medication an empty list and a
\* warning, nothing propagates, and every detected medication is looked up and
\* reported by the end of the run.
C3_NetworkErrorContained ==
    /\ pc # "crashed"
    /\ (Reported /\ response = "network_error") =>
          /\ adverse_events = <<>>
          /\ HasEntry(Entry("error_fda", LastMed))
          /\ ui[Len(ui)] = Entry("no_data", LastMed)
          /\ pc = (IF idx <= Len(meds) THEN "loop" ELSE "done")
    /\ (pc = "done" /\ meds # <<>>) =>
          \A k \in 1..Len(meds) :
              /\ \E i \in 1..Len(calls) : calls[i] = capitalize(meds[k])
              /\ \E j \in 1..Len(ui) :
                    /\ ui[j].med = capitalize(meds[k])
                    /\ ui[j].kind \in {"no_data", "potential", "no_match"}

\* the first of two lookups met a network error and the loop is at the second
C3_Witness ==
    /\ pc = "loop"
    /\ idx = 2
    /\ Len(meds) = 2
    /\ response = "network_error"
    /\ ENABLED RequestFDA

\* the outcomes on which get_fda_events raises and catches
RaisingOutcomes ==
    {"network_error", "timeout", "not_json", "not_object", "results_not_list",
     "item_no_term", "term_not_string"}

\* the failures that reach line 58 or an empty comprehension
SilentOutcomes == {"bad_status", "no_results"}

\* C4 as stated: every failure of the remote service (network error, timeout,
\* non-success status, malformed payload) gives an empty list and a warning.
C4_EveryFailureWarns ==
    (Reported /\ response \in RaisingOutcomes \cup {"bad_status"}) =>
        /\ adverse_events = <<>>
        /\ HasEntry(Entry("error_fda", LastMed))

\* C4 amended: a network error, a timeout and a body that makes line 57 raise
\* give an empty list and a warning; a non-success status and a 200 body
\* without results give an empty list and no warning.
C4_WarningOnlyWhenRaised ==
    Reported =>
        /\ response \in RaisingOutcomes =>
              /\ adverse_events = <<>>
              /\ HasEntry(Entry("error_fda", LastMed))
              /\ ui[Len(ui)] = Entry("no_data", LastMed)
        /\ response \in SilentOutcomes =>
              /\ adverse_events = <<>>
              /\ ~HasEntry(Entry("error_fda", LastMed))
              /\ ui[Len(ui)] = Entry("no_data", LastMed)

\* one lookup failed with a warning and the next one, on a bad status, without
C4_Witness ==
    /\ pc = "done"
    /\ Len(calls) = 2
    /\ HasEntry(Entry("error_fda", calls[1]))
    /\ response = "bad_status"
    /\ ~HasEntry(Entry("error_fda", calls[2]))

\* C5: a non-empty text without a medication is reported as "no medications
\* detected", never as "no adverse event data", and no lookup is made.
C5_NoMedicationsNoLookups ==
    (pc \in {"analysis", "loop", "awaiting", "done"} /\ text # <<>>
        /\ DetectedMedications = {}) =>
        /\ calls = <<>>
        /\ ~HasKind("no_data")
        /\ ~HasKind("expander")
        /\ (pc = "done" => HasKind("warning_no_medications") /\ extractions = 1)

\* a text with symptoms and no medication has been analysed
C5_Witness ==
    /\ pc = "done"
    /\ text # <<>>
    /\ meds = <<>>
    /\ symptoms # <<>>
    /\ HasKind("warning_no_medications")

\* C6: an empty adverse-event list is reported as "no data", with neither a
\* match nor a no-match result and no list shown, and the loop goes on to the
\* next medication.
C6_EmptyListIsNoData ==
    (Reported /\ adverse_events = <<>>) =>
        LET med == capitalize(meds[idx - 1])
        IN  /\ ui[Len(ui)] = Entry("no_data", med)
            /\ ~HasEntry(Entry("potential", med))
            /\ ~HasEntry(Entry("no_match", med))
            /\ shown = NoLists
            /\ (idx = 2 => matches = <<>>)
            /\ pc = (IF idx <= Len(meds) THEN "loop" ELSE "done")

\* the service had no result for the first medication and the loop is at the second
C6_Witness ==
    /\ pc = "loop"
    /\ idx = 2
    /\ adverse_events = <<>>
    /\ response = "ok"
    /\ symptoms # <<>>

\* C7: one request per distinct detected medication, never two at once, none
\* repeated; at the end their number is the number of distinct medications in
\* the text.
C7_OneRequestPerMedication ==
    /\ pc = "awaiting" <=> response = "pending"
    /\ pc = "awaiting" => Len(calls) = idx
    /\ pc \in {"loop", "done"} /\ idx >= 1 => Len(calls) = idx - 1
    /\ \A i, j \in 1..Len(calls) : calls[i] = calls[j] => i = j
    /\ Len(calls) <= Cardinality(DetectedMedications)
    /\ pc = "done" => Len(calls) = Cardinality(DetectedMedications)

\* two medications, both lookups failed, and just two requests were made
C7_Witness ==
    /\ pc = "done"
    /\ Len(calls) = 2
    /\ HasEntry(Entry("error_fda", calls[1]))
    /\ response = "timeout"
    /\ Cardinality(DetectedMedications) = 2

\* C8 as stated: the list a lookup returns has at most limit terms, all lowercase.
C8_EventsWithinLimit ==
    /\ Len(adverse_events) <= limit
    /\ \A i \in 1..Len(adverse_events) : adverse_events[i] = lower(adverse_events[i])

\* C9: when the model does not load, the diagnostic is shown and the run stops
\* there: nothing is transcribed, extracted, looked up or reported; and a model
\* that loaded stays loaded.
C9_LoadFailureHalts ==
    /\ (pc # "load" /\ model = "unset") => pc = "stopped"
    /\ pc = "stopped" =>
          /\ model = "unset"
          /\ ui = <<Entry("error_model", <<>>)>>
          /\ transcriptions = 0
          /\ extractions = 0
          /\ calls = <<>>
          /\ ~ENABLED Next
    /\ pc \notin {"load", "stopped"} => model = "loaded"

\* the load failed and the run has stopped
C9_Witness == pc = "stopped" /\ HasKind("error_model")

\* C10: a failed transcription gives the empty string and a diagnostic, the
\* run goes on, and nothing is analysed: no extraction, no lookup, no
\* transcript and no "no medications" message.
C10_TranscriptionFailureSkipsAnalysis ==
    audio \in {"decode_error", "recognition_error"} =>
        /\ text = <<>>
        /\ pc \in {"analysis", "done"}
        /\ ui = <<Entry("error_transcription", <<>>)>>
        /\ extractions = 0
        /\ calls = <<>>

\* the upload could not be decoded and the run reached its end
C10_Witness == audio = "decode_error" /\ pc = "done" /\ transcriptions = 1

====
